---- MODULE Spec2Model ----
(***************************************************************************)
(* Model of the project generator CLI (src/src/main.rs).                   *)
(*                                                                         *)
(* One invocation parses (kind, project, no_prompt), dispatches to one of  *)
(* four strategies and exits with the code derived from the Result that    *)
(* main returns.  The filesystem below <project>/ is modelled as a set of  *)
(* directories and a map from file paths to content tags; every probe,     *)
(* confirmation, subprocess and filesystem operation is one step and is    *)
(* appended to the log of the current invocation.                          *)
(***************************************************************************)
EXTENDS Integers, Sequences, FiniteSets, TLC

VARIABLES
    kind,         \* Commands variant selected by Cli::parse
    no_prompt,    \* Cli.no_prompt
    pathEnv,      \* executables that which() resolves during this invocation
    pc,           \* position inside main / the selected strategy
    i,            \* index of the next element of the dirs / files array
    dirs,         \* directories existing below <project>/ ("." is <project>)
    files,        \* file path -> content tag, Absent when the file is missing
    log,          \* operations performed by the current invocation, in order
    decision,     \* branch taken: "none", "tool", "fallback" or "abort"
    result,       \* "running", "Ok" or "Err": the Result returned to main
    exitCode,     \* process exit status, -1 while the process is running
    fallbackDone, \* the hand-written scaffold was written completely
    runs,         \* number of invocations started so far
    startDirs,    \* dirs when the current invocation started
    startFiles,   \* files when the current invocation started
    prevFallback  \* kind whose scaffold the previous invocation completed

vars == <<kind, no_prompt, pathEnv, pc, i, dirs, files, log, decision, result,
          exitCode, fallbackDone, runs, startDirs, startFiles, prevFallback>>

\* Number of invocations of the program on the same project name.
MaxRuns == 2

----------------------------------------------------------------------------
\* Configuration data of the strategies

Kinds == {"Symfony", "Flask", "Django", "Rust"}

Root == "."
Absent == "absent"

SymfonyDirs == <<"config", "public", "src", "templates", "var", "vendor">>
SymfonyFiles == <<[path |-> "public/index.php", content |-> "symfony_front_controller"]>>

FlaskDirs == <<"app", "venv", "static", "templates">>
FlaskFiles == <<[path |-> "app/app.py", content |-> "flask_route_handler"]>>

DjangoDirs == <<"project", "app", "venv">>
DjangoFiles == <<[path |-> "manage.py", content |-> "django_manage"],
                 [path |-> "project/settings.py", content |-> "django_settings"]>>

\* Paths written by the subprocesses (opaque tools, reduced to one marker each)
ToolMarker == "generated.out"
VenvMarker == "venv/pyvenv.cfg"

Range(s) == {s[k] : k \in 1..Len(s)}

DirPaths == {Root} \cup Range(SymfonyDirs) \cup Range(FlaskDirs) \cup Range(DjangoDirs)
FilePaths == {f.path : f \in Range(SymfonyFiles) \cup Range(FlaskFiles) \cup Range(DjangoFiles)}
             \cup {ToolMarker, VenvMarker}

\* Path::join / parent directory of each path the program touches
Parent(p) ==
    CASE p = "public/index.php" -> "public"
      [] p = "app/app.py" -> "app"
      [] p = "project/settings.py" -> "project"
      [] p = VenvMarker -> "venv"
      [] OTHER -> Root

\* proper ancestors of a path below <project>/
Ancestors(p) == IF p = Root THEN {} ELSE {Parent(p)} \cup (IF Parent(p) = Root THEN {} ELSE {Root})

ToolOf(k) ==
    CASE k = "Symfony" -> "symfony"
      [] k = "Django" -> "django-admin"
      [] k = "Rust" -> "cargo"
      [] OTHER -> "none"

\* executables whose presence the strategy of kind k looks at
ProbedBy(k) ==
    CASE k = "Symfony" -> {"symfony"}
      [] k = "Flask" -> {"python", "python3"}
      [] k = "Django" -> {"django-admin", "python", "python3"}
      [] OTHER -> {"cargo"}

DirsOf(k) ==
    CASE k = "Symfony" -> SymfonyDirs
      [] k = "Flask" -> FlaskDirs
      [] k = "Django" -> DjangoDirs
      [] OTHER -> <<>>

FilesOf(k) ==
    CASE k = "Symfony" -> SymfonyFiles
      [] k = "Flask" -> FlaskFiles
      [] k = "Django" -> DjangoFiles
      [] OTHER -> <<>>

----------------------------------------------------------------------------
\* Library functions used by the strategies

\* which(command).is_ok()
command_exists(command) == command \in pathEnv

\* variant of prompt_yes_no that forgets the no_prompt short-circuit
prompt_yes_no_always_asks(np, answer) == answer = "yes"

\* prompt_yes_no: no_prompt answers true without consulting the user; an
\* interaction error counts as "no" (unwrap_or(false))
prompt_yes_no(np, answer) == IF np THEN TRUE ELSE answer = "yes"

Answers == {"yes", "no", "error"}

\* log entry of a confirmation; nothing is logged when the user is not asked
ConfirmEntry(np, question, answer) ==
    IF np THEN <<>> ELSE <<[op |-> "confirm", arg |-> question, res |-> answer]>>

\* outcomes the operating system can impose on a filesystem operation:
\* none, refused before anything changed, or failed part of the way
Faults == {"none", "denied", "partial"}

\* variant using fs::create_dir semantics: an existing directory is an error
create_dir_not_idempotent(ds, fs, p, fault) ==
    IF fault = "denied" THEN [res |-> "io_error", dirs |-> ds]
    ELSE IF p \in ds \/ \E q \in ({p} \cup Ancestors(p)) \cap FilePaths : fs[q] # Absent
         THEN [res |-> "exists", dirs |-> ds]
    ELSE IF fault = "partial" THEN [res |-> "io_error", dirs |-> ds \cup Ancestors(p)]
    ELSE [res |-> "ok", dirs |-> ds \cup {p} \cup Ancestors(p)]

\* fs::create_dir_all: creates the missing ancestors, then the path; succeeds
\* when the directory already exists, fails when a component is a file; a
\* failure at the last component leaves the ancestors created
create_dir_all(ds, fs, p, fault) ==
    IF fault = "denied" THEN [res |-> "io_error", dirs |-> ds]
    ELSE IF \E q \in ({p} \cup Ancestors(p)) \cap FilePaths : fs[q] # Absent
         THEN [res |-> "exists", dirs |-> ds]
    ELSE IF fault = "partial" THEN [res |-> "io_error", dirs |-> ds \cup Ancestors(p)]
    ELSE [res |-> "ok", dirs |-> ds \cup {p} \cup Ancestors(p)]

\* fs::write: File::create (create or truncate; the parent directory must
\* exist) followed by write_all; a failure of write_all leaves the file
\* truncated
fs_write(ds, fs, p, content, fault) ==
    IF fault = "denied" THEN [res |-> "io_error", files |-> fs]
    ELSE IF Parent(p) \notin ds THEN [res |-> "not_found", files |-> fs]
    ELSE IF p \in ds THEN [res |-> "is_dir", files |-> fs]
    ELSE IF fault = "partial" THEN [res |-> "io_error", files |-> [fs EXCEPT ![p] = "truncated"]]
    ELSE [res |-> "ok", files |-> [fs EXCEPT ![p] = content]]

\* Command::status(): the child cannot be spawned, exits non-zero or succeeds
StatusOf(cmd) ==
    IF cmd \in pathEnv THEN {"spawn_err", "nonzero", "success"} ELSE {"spawn_err"}

\* if command_exists("python") { "python" } else { "python3" }
python_cmd == IF command_exists("python") THEN "python" ELSE "python3"

\* exit status the runtime derives from main's Result
ExitCode(r) == IF r = "Ok" THEN 0 ELSE 1

Frame == UNCHANGED <<kind, no_prompt, pathEnv, runs, startDirs, startFiles, prevFallback>>

----------------------------------------------------------------------------
Invocation(k, np, env) ==
    /\ kind = k
    /\ no_prompt = np
    /\ pathEnv = env
    /\ pc = "main"
    /\ i = 1
    /\ log = <<>>
    /\ decision = "none"
    /\ result = "running"
    /\ exitCode = -1
    /\ fallbackDone = FALSE

Init ==
    /\ \E k \in Kinds, np \in BOOLEAN : \E env \in SUBSET ProbedBy(k) : Invocation(k, np, env)
    /\ dirs = {}
    /\ files = [p \in FilePaths |-> Absent]
    /\ runs = 1
    /\ startDirs = {}
    /\ startFiles = [p \in FilePaths |-> Absent]
    /\ prevFallback = "none"

\* main: match &cli.command
main_dispatch ==
    /\ pc = "main"
    /\ pc' = "probe"
    /\ UNCHANGED <<i, dirs, files, log, decision, result, exitCode, fallbackDone>>
    /\ Frame

\* main: Ok(()) or the propagated error becomes the exit status
main_return ==
    /\ pc = "return"
    /\ pc' = "exited"
    /\ exitCode' = ExitCode(result)
    /\ UNCHANGED <<i, dirs, files, log, decision, result, fallbackDone>>
    /\ Frame

----------------------------------------------------------------------------
\* Shared shapes of the strategy steps

\* variant of RunTool that does not look at the exit status of the generator
RunTool_status_unchecked(cmd, okPc) ==
    \E st \in StatusOf(cmd), partial \in BOOLEAN :
        /\ log' = Append(log, [op |-> "spawn", arg |-> cmd, res |-> st])
        /\ dirs' = IF st = "success" \/ (st = "nonzero" /\ partial) THEN dirs \cup {Root} ELSE dirs
        /\ files' = IF st = "success" THEN [files EXCEPT ![ToolMarker] = "tool_output"] ELSE files
        /\ pc' = okPc
        /\ result' = IF okPc = "return" THEN "Ok" ELSE result
        /\ UNCHANGED <<i, decision, exitCode, fallbackDone>>
        /\ Frame

\* run the official generator; okPc follows a successful exit status
RunTool(cmd, okPc) ==
    \E st \in StatusOf(cmd), partial \in BOOLEAN :
        /\ log' = Append(log, [op |-> "spawn", arg |-> cmd, res |-> st])
        /\ IF st = "success"
           THEN /\ dirs' = dirs \cup {Root}
                /\ files' = [files EXCEPT ![ToolMarker] = "tool_output"]
                /\ pc' = okPc
                /\ result' = IF okPc = "return" THEN "Ok" ELSE result
           ELSE /\ dirs' = IF st = "nonzero" /\ partial THEN dirs \cup {Root} ELSE dirs
                /\ files' = files
                /\ pc' = "return"
                /\ result' = "Err"
        /\ UNCHANGED <<i, decision, exitCode, fallbackDone>>
        /\ Frame

\* variant of MkDir that drops the `?`: a failed creation does not stop the loop
MkDir_error_ignored(ds) ==
    \E fault \in Faults :
        LET r == create_dir_all(dirs, files, ds[i], fault) IN
        /\ log' = Append(log, [op |-> "create_dir_all", arg |-> ds[i], res |-> r.res])
        /\ dirs' = r.dirs
        /\ result' = result
        /\ IF i < Len(ds) THEN i' = i + 1 /\ pc' = "mkdir"
                          ELSE i' = 1 /\ pc' = "write"
        /\ UNCHANGED <<files, decision, exitCode, fallbackDone>>
        /\ Frame

\* variant of MkDir whose loop leaves out the last directory
MkDir_last_skipped(ds) ==
    \E fault \in Faults :
        LET r == create_dir_all(dirs, files, ds[i], fault) IN
        /\ log' = Append(log, [op |-> "create_dir_all", arg |-> ds[i], res |-> r.res])
        /\ dirs' = r.dirs
        /\ IF r.res = "ok"
           THEN /\ result' = result
                /\ IF i < Len(ds) - 1 THEN i' = i + 1 /\ pc' = "mkdir"
                                      ELSE i' = 1 /\ pc' = "write"
           ELSE /\ result' = "Err"
                /\ pc' = "return"
                /\ i' = i
        /\ UNCHANGED <<files, decision, exitCode, fallbackDone>>
        /\ Frame

\* one iteration of `for dir in &dirs { fs::create_dir_all(..)?; }`
MkDir(ds) ==
    \E fault \in Faults :
        LET r == create_dir_all(dirs, files, ds[i], fault) IN
        /\ log' = Append(log, [op |-> "create_dir_all", arg |-> ds[i], res |-> r.res])
        /\ dirs' = r.dirs
        /\ IF r.res = "ok"
           THEN /\ result' = result
                /\ IF i < Len(ds) THEN i' = i + 1 /\ pc' = "mkdir"
                                  ELSE i' = 1 /\ pc' = "write"
           ELSE /\ result' = "Err"
                /\ pc' = "return"
                /\ i' = i
        /\ UNCHANGED <<files, decision, exitCode, fallbackDone>>
        /\ Frame

\* one fs::write(..)? of the scaffold; afterPc follows the last file
WriteFile(fl, afterPc) ==
    \E fault \in Faults :
        LET r == fs_write(dirs, files, fl[i].path, fl[i].content, fault) IN
        /\ log' = Append(log, [op |-> "write", arg |-> fl[i].path, res |-> r.res])
        /\ files' = r.files
        /\ IF r.res = "ok"
           THEN IF i < Len(fl)
                THEN /\ i' = i + 1 /\ pc' = "write"
                     /\ UNCHANGED <<result, fallbackDone>>
                ELSE /\ i' = 1 /\ pc' = afterPc
                     /\ fallbackDone' = TRUE
                     /\ result' = IF afterPc = "return" THEN "Ok" ELSE result
           ELSE /\ result' = "Err"
                /\ pc' = "return"
                /\ i' = i
                /\ UNCHANGED fallbackDone
        /\ UNCHANGED <<dirs, decision, exitCode>>
        /\ Frame

\* variant of SetupVenv that propagates a failed setup as an error
SetupVenv_fatal(failPc) ==
    \E st \in StatusOf(python_cmd), partial \in BOOLEAN :
        /\ log' = Append(log, [op |-> "spawn", arg |-> python_cmd, res |-> st])
        /\ IF st = "success"
           THEN /\ dirs' = dirs \cup {Root, "venv"}
                /\ files' = [files EXCEPT ![VenvMarker] = "venv_cfg"]
                /\ result' = "Ok"
           ELSE /\ dirs' = IF st = "nonzero" /\ partial THEN dirs \cup {Root, "venv"} ELSE dirs
                /\ files' = files
                /\ result' = "Err"
        /\ pc' = "return"
        /\ UNCHANGED <<i, decision, exitCode, fallbackDone>>
        /\ Frame

\* python -m venv <project>/venv; failPc follows a failed setup
SetupVenv(failPc) ==
    \E st \in StatusOf(python_cmd), partial \in BOOLEAN :
        /\ log' = Append(log, [op |-> "spawn", arg |-> python_cmd, res |-> st])
        /\ IF st = "success"
           THEN /\ dirs' = dirs \cup {Root, "venv"}
                /\ files' = [files EXCEPT ![VenvMarker] = "venv_cfg"]
                /\ pc' = "return"
                /\ result' = "Ok"
           ELSE /\ dirs' = IF st = "nonzero" /\ partial THEN dirs \cup {Root, "venv"} ELSE dirs
                /\ files' = files
                /\ pc' = failPc
                /\ result' = IF failPc = "return" THEN "Ok" ELSE result
        /\ UNCHANGED <<i, decision, exitCode, fallbackDone>>
        /\ Frame

----------------------------------------------------------------------------
\* create_symfony_project

symfony_probe ==
    /\ kind = "Symfony" /\ pc = "probe"
    /\ IF command_exists("symfony")
       THEN pc' = "run_tool" /\ decision' = "tool"
       ELSE pc' = "prompt" /\ decision' = decision
    /\ UNCHANGED <<i, dirs, files, log, result, exitCode, fallbackDone>>
    /\ Frame

symfony_run_tool ==
    /\ kind = "Symfony" /\ pc = "run_tool"
    /\ RunTool("symfony", "return")

symfony_prompt ==
    /\ kind = "Symfony" /\ pc = "prompt"
    /\ \E answer \in Answers :
        /\ log' = log \o ConfirmEntry(no_prompt, "symfony_fallback", answer)
        /\ IF prompt_yes_no(no_prompt, answer)
           THEN pc' = "mkdir" /\ decision' = "fallback" /\ result' = result
           ELSE pc' = "return" /\ decision' = "abort" /\ result' = "Ok"
    /\ UNCHANGED <<i, dirs, files, exitCode, fallbackDone>>
    /\ Frame

symfony_mkdir ==
    /\ kind = "Symfony" /\ pc = "mkdir"
    /\ MkDir(SymfonyDirs)

symfony_write ==
    /\ kind = "Symfony" /\ pc = "write"
    /\ WriteFile(SymfonyFiles, "return")

----------------------------------------------------------------------------
\* create_rust_project

\* variant of rust_probe that treats a missing cargo as a clean exit
rust_probe_soft_abort ==
    /\ kind = "Rust" /\ pc = "probe"
    /\ IF ~command_exists("cargo")
       THEN pc' = "return" /\ decision' = "abort" /\ result' = "Ok"
       ELSE pc' = "run_tool" /\ decision' = "tool" /\ result' = result
    /\ UNCHANGED <<i, dirs, files, log, exitCode, fallbackDone>>
    /\ Frame

rust_probe ==
    /\ kind = "Rust" /\ pc = "probe"
    /\ IF ~command_exists("cargo")
       THEN pc' = "return" /\ decision' = "abort" /\ result' = "Err"
       ELSE pc' = "run_tool" /\ decision' = "tool" /\ result' = result
    /\ UNCHANGED <<i, dirs, files, log, exitCode, fallbackDone>>
    /\ Frame

rust_run_tool ==
    /\ kind = "Rust" /\ pc = "run_tool"
    /\ RunTool("cargo", "return")

----------------------------------------------------------------------------
\* create_flask_project

flask_probe ==
    /\ kind = "Flask" /\ pc = "probe"
    /\ IF ~command_exists("python") /\ ~command_exists("python3")
       THEN pc' = "prompt" /\ decision' = decision
       ELSE pc' = "mkdir" /\ decision' = "fallback"
    /\ UNCHANGED <<i, dirs, files, log, result, exitCode, fallbackDone>>
    /\ Frame

\* variant of flask_prompt without the negation of the answer
flask_prompt_not_negated ==
    /\ kind = "Flask" /\ pc = "prompt"
    /\ \E answer \in Answers :
        /\ log' = log \o ConfirmEntry(no_prompt, "flask_abort_install_python", answer)
        /\ IF prompt_yes_no(no_prompt, answer)
           THEN pc' = "return" /\ decision' = "abort" /\ result' = "Err"
           ELSE pc' = "mkdir" /\ decision' = "fallback" /\ result' = result
    /\ UNCHANGED <<i, dirs, files, exitCode, fallbackDone>>
    /\ Frame

flask_prompt ==
    /\ kind = "Flask" /\ pc = "prompt"
    /\ \E answer \in Answers :
        /\ log' = log \o ConfirmEntry(no_prompt, "flask_abort_install_python", answer)
        /\ IF ~prompt_yes_no(no_prompt, answer)
           THEN pc' = "return" /\ decision' = "abort" /\ result' = "Err"
           ELSE pc' = "mkdir" /\ decision' = "fallback" /\ result' = result
    /\ UNCHANGED <<i, dirs, files, exitCode, fallbackDone>>
    /\ Frame

flask_mkdir ==
    /\ kind = "Flask" /\ pc = "mkdir"
    /\ MkDir(FlaskDirs)

flask_write ==
    /\ kind = "Flask" /\ pc = "write"
    /\ WriteFile(FlaskFiles, "venv")

flask_setup_venv ==
    /\ kind = "Flask" /\ pc = "venv"
    /\ SetupVenv("venv_prompt")

flask_venv_prompt ==
    /\ kind = "Flask" /\ pc = "venv_prompt"
    /\ \E answer \in Answers :
        /\ log' = log \o ConfirmEntry(no_prompt, "flask_try_again_manually", answer)
        /\ pc' = "return"
        /\ result' = "Ok"
    /\ UNCHANGED <<i, dirs, files, decision, exitCode, fallbackDone>>
    /\ Frame

----------------------------------------------------------------------------
\* create_django_project

django_probe ==
    /\ kind = "Django" /\ pc = "probe"
    /\ IF command_exists("django-admin")
       THEN pc' = "run_tool" /\ decision' = "tool"
       ELSE pc' = "prompt" /\ decision' = decision
    /\ UNCHANGED <<i, dirs, files, log, result, exitCode, fallbackDone>>
    /\ Frame

django_run_tool ==
    /\ kind = "Django" /\ pc = "run_tool"
    /\ RunTool("django-admin", "venv")

django_prompt ==
    /\ kind = "Django" /\ pc = "prompt"
    /\ \E answer \in Answers :
        /\ log' = log \o ConfirmEntry(no_prompt, "django_fallback", answer)
        /\ IF prompt_yes_no(no_prompt, answer)
           THEN pc' = "mkdir" /\ decision' = "fallback"
           ELSE pc' = "venv" /\ decision' = "abort"
    /\ UNCHANGED <<i, dirs, files, result, exitCode, fallbackDone>>
    /\ Frame

django_mkdir ==
    /\ kind = "Django" /\ pc = "mkdir"
    /\ MkDir(DjangoDirs)

django_write ==
    /\ kind = "Django" /\ pc = "write"
    /\ WriteFile(DjangoFiles, "venv")

django_setup_venv ==
    /\ kind = "Django" /\ pc = "venv"
    /\ SetupVenv("return")

----------------------------------------------------------------------------
\* The program invoked again on the same project name: the filesystem is
\* what the previous invocation left, everything else starts afresh.
main_again ==
    /\ pc = "exited"
    /\ runs < MaxRuns
    /\ runs' = runs + 1
    /\ \E k \in Kinds, np \in BOOLEAN : \E env \in SUBSET ProbedBy(k) :
        /\ kind' = k
        /\ no_prompt' = np
        /\ pathEnv' = env
    /\ pc' = "main"
    /\ i' = 1
    /\ log' = <<>>
    /\ decision' = "none"
    /\ result' = "running"
    /\ exitCode' = -1
    /\ fallbackDone' = FALSE
    /\ startDirs' = dirs
    /\ startFiles' = files
    /\ prevFallback' = IF fallbackDone THEN kind ELSE "none"
    /\ UNCHANGED <<dirs, files>>

----------------------------------------------------------------------------
Next ==
    \/ main_dispatch
    \/ main_return
    \/ symfony_probe
    \/ symfony_run_tool
    \/ symfony_prompt
    \/ symfony_mkdir
    \/ symfony_write
    \/ flask_probe
    \/ flask_prompt
    \/ flask_mkdir
    \/ flask_write
    \/ flask_setup_venv
    \/ flask_venv_prompt
    \/ django_probe
    \/ django_run_tool
    \/ django_prompt
    \/ django_mkdir
    \/ django_write
    \/ django_setup_venv
    \/ rust_probe
    \/ rust_run_tool

Spec == Init /\ [][Next]_vars

NextRerun == Next \/ main_again

SpecRerun == Init /\ [][NextRerun]_vars

TypeOK ==
    /\ kind \in Kinds
    /\ no_prompt \in BOOLEAN
    /\ pathEnv \subseteq ProbedBy(kind)
    /\ dirs \subseteq DirPaths
    /\ exitCode \in {-1, 0, 1}
    /\ result \in {"running", "Ok", "Err"}
    /\ decision \in {"none", "tool", "fallback", "abort"}
    /\ runs \in 1..MaxRuns

----------------------------------------------------------------------------
\* Vocabulary of the properties

Exited == pc = "exited"

FsOps == {"create_dir_all", "write"}

Entries(op) == {k \in 1..Len(log) : log[k].op = op}

FsEntries == {k \in 1..Len(log) : log[k].op \in FsOps}

FailedFsEntries == {k \in FsEntries : log[k].res # "ok"}

\* spawns of the interpreter for `-m venv`
VenvEntries == {k \in Entries("spawn") : log[k].arg \in {"python", "python3"}}

\* spawns of the official generator of the kind
ToolEntries == {k \in Entries("spawn") : log[k].arg = ToolOf(kind)}

HasFallback(k) == k \in {"Symfony", "Django"}

ToolAbsent == ToolOf(kind) \notin pathEnv

\* the user was asked the fallback question and answered `res`
FallbackAnswered(res) ==
    \E k \in Entries("confirm") :
        /\ log[k].arg \in {"symfony_fallback", "django_fallback"}
        /\ log[k].res = res

\* every directory and file of the kind's scaffold is on disk
ScaffoldWritten(k) ==
    /\ Range(DirsOf(k)) \subseteq dirs
    /\ \A f \in Range(FilesOf(k)) : files[f.path] = f.content

\* directories made by the create_dir_all calls logged before position k
MadeBefore(k) ==
    UNION {{log[j].arg} \cup Ancestors(log[j].arg) :
             j \in {n \in 1..(k - 1) : log[n].op = "create_dir_all" /\ log[n].res = "ok"}}

----------------------------------------------------------------------------
\* C1: for the kinds with a fallback scaffold (Symfony, Django), when the
\* generator is absent, the run is interactive and the user declines the
\* fallback, the strategy has decided to abort and the exit code is 1.
C1_DeclinedFallbackExitsOne ==
    (HasFallback(kind) /\ ToolAbsent /\ ~no_prompt /\ FallbackAnswered("no") /\ Exited)
        => (decision = "abort" /\ exitCode = 1)

\* C2: once a strategy has decided to abort, nothing is created below
\* <project>/ and no subprocess is started until the process exits.
C2_AbortLeavesFilesystemAlone ==
    decision = "abort" =>
        /\ dirs = startDirs
        /\ files = startFiles
        /\ Entries("spawn") = {}
        /\ FsEntries = {}

\* C3: for Symfony, Django and Rust, when the generator is present and its
\* subprocess exits non-zero, the run ends with an error and exit code 1,
\* and that spawn is the only thing the invocation ever does: no prompt, no
\* scaffold directory or file, no further subprocess.
C3_ToolFailureIsTerminal ==
    \A k \in ToolEntries :
        (kind \in {"Symfony", "Django", "Rust"} /\ log[k].res = "nonzero") =>
            /\ ~ToolAbsent
            /\ Len(log) = 1
            /\ pc \in {"return", "exited"}
            /\ result = "Err"
            /\ (Exited => exitCode = 1)
            /\ \A f \in Range(FilesOf(kind)) : files[f.path] = startFiles[f.path]

C3_Witness ==
    /\ Exited /\ kind = "Django" /\ exitCode = 1
    /\ Len(log) = 1 /\ log[1].op = "spawn" /\ log[1].arg = "django-admin"
    /\ log[1].res = "nonzero"

\* C5: for Flask and Django, a run that reached the virtual-environment
\* setup exits with code 0 whatever the setup did (interpreter not
\* resolvable, spawn error, non-zero exit, success).
C5_VenvResultNeverChangesExitCode ==
    (kind \in {"Flask", "Django"} /\ VenvEntries # {} /\ Exited) => exitCode = 0

C5_Witness ==
    /\ Exited /\ kind = "Django" /\ exitCode = 0
    /\ \E k \in VenvEntries : log[k].res = "nonzero"

\* C6: for Rust with cargo absent, for both values of no_prompt, nothing is
\* asked, spawned or created, the strategy aborts with an error and the
\* exit code is 1.
C6_CargoAbsentAborts ==
    (kind = "Rust" /\ ToolAbsent) =>
        /\ log = <<>>
        /\ dirs = startDirs
        /\ files = startFiles
        /\ decision \in {"none", "abort"}
        /\ (pc \in {"return", "exited"} => decision = "abort" /\ result = "Err")
        /\ (Exited => exitCode = 1)

C6_Witness ==
    Exited /\ kind = "Rust" /\ ToolAbsent /\ ~no_prompt /\ exitCode = 1 /\ decision = "abort"

\* C8: when a directory creation or file write of a fallback scaffold fails,
\* it is the last operation of the invocation (no later directory, file or
\* subprocess), the run ends with an error and exit code 1, and everything
\* written before the failure is still on disk.
C8_IoFailureStopsWithoutRollback ==
    \A k \in FailedFsEntries :
        /\ k = Len(log)
        /\ pc \in {"return", "exited"}
        /\ result = "Err"
        /\ (Exited => exitCode = 1)
        /\ MadeBefore(k) \subseteq dirs
        /\ \A j \in 1..(k - 1) :
              (log[j].op = "write" /\ log[j].res = "ok") =>
                  \E f \in Range(FilesOf(kind)) :
                      f.path = log[j].arg /\ files[f.path] = f.content
        /\ startDirs \subseteq dirs

C8_Witness ==
    /\ Exited /\ kind = "Django" /\ exitCode = 1
    /\ \E k \in FailedFsEntries : log[k].arg = "project/settings.py"
    /\ files["manage.py"] = "django_manage"
    /\ {"project", "app", "venv"} \subseteq dirs

\* C9: in every fallback materialization all directories of the kind are
\* created before the first file is written, no directory creation follows
\* a file write, and a file is written only after its directory was created.
C9_DirectoriesBeforeFiles ==
    \A k \in Entries("write") :
        /\ Range(DirsOf(kind)) \subseteq MadeBefore(k)
        /\ Parent(log[k].arg) \in MadeBefore(k)
        /\ \A j \in Entries("create_dir_all") : j < k

C9_Witness ==
    /\ kind = "Symfony" /\ Exited /\ fallbackDone
    /\ \E k \in Entries("write") : log[k].arg = "public/index.php" /\ log[k].res = "ok"

\* the user was asked whether to go on without Python and did not say yes
FlaskDeclined ==
    \E k \in Entries("confirm") :
        log[k].arg = "flask_abort_install_python" /\ log[k].res # "yes"

C7_NoPromptAlwaysGeneratesFallback ==
    (HasFallback(kind) /\ ToolAbsent /\ no_prompt) =>
        /\ Entries("confirm") = {}
        /\ decision # "abort"
        /\ Exited => (decision = "fallback" /\ fallbackDone /\ exitCode = 0)

\* C7 amended: for Symfony and Django with the tool absent and no_prompt
\* set, the user is never asked, the strategy never aborts and always starts
\* the fallback materialization; it ends with the scaffold generated and
\* exit code 0 unless a directory/file operation fails, in which case it
\* ends with that error and exit code 1.
C7_NoPromptAlwaysTakesFallback ==
    (HasFallback(kind) /\ ToolAbsent /\ no_prompt) =>
        /\ Entries("confirm") = {}
        /\ decision \in {"none", "fallback"}
        /\ (pc \notin {"main", "probe", "prompt"} => decision = "fallback")
        /\ Exited =>
              /\ FsEntries # {}
              /\ FailedFsEntries = {}
                    => (fallbackDone /\ ScaffoldWritten(kind) /\ exitCode = 0)
              /\ FailedFsEntries # {} => (~fallbackDone /\ exitCode = 1)

C7_Witness ==
    /\ kind = "Django" /\ ToolAbsent /\ no_prompt /\ Exited
    /\ fallbackDone /\ ScaffoldWritten("Django") /\ exitCode = 0

\* C10: when a fallback strategy runs again on a project whose scaffold the
\* previous invocation of the same kind completed, no directory creation
\* fails because the directory exists (only an injected I/O fault can fail
\* an operation), and once the materialization is complete the directories
\* and file contents are exactly those the first run left.
C10_FallbackRerunIdempotent ==
    (runs >= 2 /\ prevFallback = kind /\ decision = "fallback") =>
        /\ \A k \in FailedFsEntries : log[k].res = "io_error"
        /\ fallbackDone =>
              /\ ScaffoldWritten(kind)
              /\ Range(DirsOf(kind)) \subseteq startDirs
              /\ \A f \in Range(FilesOf(kind)) : files[f.path] = startFiles[f.path]
              /\ Entries("spawn") = {} => (dirs = startDirs /\ files = startFiles)

C10_Witness ==
    /\ runs = 2 /\ prevFallback = "Symfony" /\ kind = "Symfony"
    /\ ToolAbsent /\ Exited /\ fallbackDone /\ exitCode = 0
    /\ Len(log) = 7 /\ FailedFsEntries = {}

====
